---- MODULE Spec2Model ----
(***************************************************************************)
(* cvpickle: pickling support for contextvars.Context objects.             *)
(*                                                                         *)
(* A ContextReducer keeps a registry (picklable_contextvars) that maps a   *)
(* ContextVar identity to a portable reference (modulename, qualname).     *)
(* Reducing a Context projects it onto the registered variables; the       *)
(* factory _context_factory rebuilds a Context from the reduced form by    *)
(* re-resolving every reference in the module namespace.                   *)
(***************************************************************************)
EXTENDS Integers, Sequences, FiniteSets, TLC

\* ------------------------------------------------------------------ bounds
NumVars == 3        \* ContextVar objects of the process
NumVals == 2        \* distinct values a variable may hold
NumModules == 1     \* module names
NumNames == 2       \* qualified names inside a module
MaxCalls == 2       \* copyreg.pickle calls followed

\* ------------------------------------------------------------------ universe
CVars == 1..NumVars
Values == 1..NumVals
Modules == 1..NumModules
Names == 1..NumNames
Refs == Modules \X Names

\* An object that is not a contextvars.ContextVar (and not a Context).
OtherObject == NumVars + 1
Objects == CVars \cup {OtherObject}

\* ContextVar.name: the short name the variable was declared with.
cvName(cv) == ((cv - 1) % NumNames) + 1

\* Partial functions (python dicts / namespaces) from K to V.
PartialFns(K, V) == UNION {[D -> V] : D \in SUBSET K}

\* The orders in which the keys S of a dict may be iterated.
Orders(S) == {o \in [1..Cardinality(S) -> S] : \A i, j \in 1..Cardinality(S) : o[i] = o[j] => i = j}

\* The kinds of Context objects: contextvars.Context itself and a subclass.
ContextKinds == {"Context", "SubContext"}

\* The items of a Context: the variables that have a value in it.
ItemMaps == PartialFns(CVars, Values)
Contexts == [kind : ContextKinds, items : ItemMaps]

\* The arguments __call__ may be given: a Context, or an object that is none.
NotAContext == [kind |-> "object", items |-> <<>>]
ReduceArgs == Contexts \cup {NotAContext}

\* The second element of the reduced form: {(modulename, qualname): value}.
Mappings == PartialFns(Refs, Values)

\* The first element of the reduced form (cls): None, contextvars.copy_context or a class.
Selectors == {"None", "copy_context"} \cup ContextKinds

\* What importlib.import_module(modulename) followed by _getattribute(module, qualname)
\* gives for one reference: the error raised, or the object found.
LookupResults ==
    {[err |-> "ModuleNotFoundError", obj |-> {}], [err |-> "AttributeError", obj |-> {}]}
        \cup {[err |-> "none", obj |-> {o}] : o \in Objects}

\* The lookups of the references R in one state of the module namespace: a module is
\* importable for all of its names or for none.
Resolutions(R) ==
    {res \in [R -> LookupResults] :
        \A r1, r2 \in R : r1[1] = r2[1] =>
            ((res[r1].err = "ModuleNotFoundError") <=> (res[r2].err = "ModuleNotFoundError"))}

VARIABLES
    picklable_contextvars,   \* ContextReducer.picklable_contextvars: dict ContextVar -> (modulename, qualname)
    auto_register,           \* ContextReducer.auto_register
    factory_is_copy_context, \* ContextReducer.factory_is_copy_context
    copyreg_calls,           \* number of copyreg.pickle(contextvars.Context, self) calls made
    pickle_flags,            \* stackless PICKLEFLAGS_PICKLE_CONTEXT set (current and default)
    current_context,         \* the items of the ambient (currently active) Context
    unregistered,            \* history: variables unregistered and not registered again since
    last                     \* the last call made: its arguments and its outcome

vars == <<picklable_contextvars, auto_register, factory_is_copy_context, copyreg_calls,
          pickle_flags, current_context, unregistered, last>>

\* ------------------------------------------------------------------ ContextReducer.__init__

\* Lines 77-84 and 142: a reducer as constructed, with either value of its two options.
Init ==
    /\ picklable_contextvars = <<>>
    /\ auto_register \in BOOLEAN
    /\ factory_is_copy_context \in BOOLEAN
    /\ copyreg_calls = 0
    /\ pickle_flags = FALSE
    /\ current_context \in ItemMaps
    /\ unregistered = {}
    /\ last = [op |-> "init"]

\* ------------------------------------------------------------------ register_contextvar

\* The module arguments: a module name (a string), or a module object.
ModuleArgs == [is_module : BOOLEAN, name : Modules]

\* The qualname arguments: None (<<>>) or a name (<<q>>).
QualnameArgs == {<<>>} \cup {<<q>> : q \in Names}

\* No lookup was made (validate is false, or the call failed before it).
NoLookup == [err |-> "none", obj |-> {}]

\* Lines 118-121: what the validation may find: nothing is looked up unless validate is
\* true, and with a module object no import is made.
ValidationLookups(contextvar, module, validate) ==
    IF ~validate \/ contextvar \notin CVars THEN {NoLookup}
    ELSE IF module.is_module THEN {l \in LookupResults : l.err # "ModuleNotFoundError"}
    ELSE LookupResults

\* Lines 112-117: the reference that is stored for the arguments.
RegisteredRef(contextvar, module, qualname) ==
    <<module.name, IF qualname = <<>> THEN cvName(contextvar) ELSE qualname[1]>>

\* Mutant of RegisterError: the identity check of lines 122-123 is left out.
RegisterErrorNoIdentityCheck(contextvar, validate, lookup) ==
    IF contextvar \notin CVars THEN "TypeError"
    ELSE IF ~validate THEN "none"
    ELSE lookup.err

\* Lines 109-123: the error register_contextvar raises, or "none".
RegisterError(contextvar, validate, lookup) ==
    IF contextvar \notin CVars THEN "TypeError"
    ELSE IF ~validate THEN "none"
    ELSE IF lookup.err # "none" THEN lookup.err
    ELSE IF lookup.obj # {contextvar} THEN "ValueError"
    ELSE "none"

\* Mutant of StoreEntry: the registry is replaced by the new entry alone.
StoreEntryClobber(registry, contextvar, ref) ==
    [cv \in {contextvar} |-> ref]

\* Line 124: self.picklable_contextvars[contextvar] = (modulename, qualname)
StoreEntry(registry, contextvar, ref) ==
    [cv \in DOMAIN registry \cup {contextvar} |-> IF cv = contextvar THEN ref ELSE registry[cv]]

\* Mutant of AutoRegisterAfter: auto_register is not reset.
AutoRegisterKept(auto) == auto

\* Lines 125-126: whether this successful registration activates the reducer, and the
\* value of auto_register after it.
Activates(auto) == auto
AutoRegisterAfter(auto) == FALSE

RegisterContextvar(contextvar, module, qualname, validate, lookup) ==
    LET err == RegisterError(contextvar, validate, lookup)
        ref == RegisteredRef(contextvar, module, qualname)
    IN
    /\ last' = [op |-> "register", cv |-> contextvar,
                ref |-> IF err = "TypeError" THEN <<>> ELSE ref,
                validate |-> validate, lookup |-> lookup, err |-> err]
    /\ IF err # "none"
       THEN UNCHANGED <<picklable_contextvars, auto_register, copyreg_calls, pickle_flags, unregistered>>
       ELSE /\ picklable_contextvars' = StoreEntry(picklable_contextvars, contextvar, ref)
            /\ unregistered' = unregistered \ {contextvar}
            /\ IF Activates(auto_register)
               THEN /\ auto_register' = AutoRegisterAfter(auto_register)
                    /\ copyreg_calls' = copyreg_calls + 1
                    \* "from stackless import ..." succeeds or raises ImportError
                    /\ \E stackless \in BOOLEAN : pickle_flags' = (pickle_flags \/ stackless)
               ELSE UNCHANGED <<auto_register, copyreg_calls, pickle_flags>>
    /\ UNCHANGED <<factory_is_copy_context, current_context>>

Register ==
    \E contextvar \in Objects, module \in ModuleArgs, qualname \in QualnameArgs,
       validate \in BOOLEAN :
        \E lookup \in ValidationLookups(contextvar, module, validate) :
            /\ copyreg_calls < MaxCalls
            /\ RegisterContextvar(contextvar, module, qualname, validate, lookup)

\* ------------------------------------------------------------------ unregister_contextvar

\* Mutant of DeleteEntry: the entry is left in the registry.
DeleteEntryNoop(registry, contextvar) == registry

\* Line 140: del self.picklable_contextvars[contextvar]
DeleteEntry(registry, contextvar) ==
    [cv \in DOMAIN registry \ {contextvar} |-> registry[cv]]

UnregisterContextvar(contextvar) ==
    LET err == IF contextvar \in DOMAIN picklable_contextvars THEN "none" ELSE "KeyError" IN
    /\ last' = [op |-> "unregister", cv |-> contextvar, err |-> err]
    /\ IF err = "none"
       THEN /\ picklable_contextvars' = DeleteEntry(picklable_contextvars, contextvar)
            /\ unregistered' = unregistered \cup {contextvar}
       ELSE UNCHANGED <<picklable_contextvars, unregistered>>
    /\ UNCHANGED <<auto_register, factory_is_copy_context, copyreg_calls, pickle_flags,
                   current_context>>

Unregister == \E contextvar \in Objects : UnregisterContextvar(contextvar)

\* ------------------------------------------------------------------ ContextReducer.__call__

\* Mutant of ReduceItems: the first item of the iteration is skipped.
RECURSIVE ReduceItemsSkipFirst(_, _, _, _)
ReduceItemsSkipFirst(registry, items, order, n) ==
    IF n <= 1 THEN <<>>
    ELSE LET before == ReduceItemsSkipFirst(registry, items, order, n - 1)
             cv == order[n]
         IN IF cv \in DOMAIN registry
            THEN [r \in DOMAIN before \cup {registry[cv]} |->
                     IF r = registry[cv] THEN items[cv] ELSE before[r]]
            ELSE before

\* Lines 91-95: the dict cvars built while iterating context.items() in the given order;
\* a later item stored under the same reference replaces an earlier one.
RECURSIVE ReduceItems(_, _, _, _)
ReduceItems(registry, items, order, n) ==
    IF n = 0 THEN <<>>
    ELSE LET before == ReduceItems(registry, items, order, n - 1)
             cv == order[n]
         IN IF cv \in DOMAIN registry
            THEN [r \in DOMAIN before \cup {registry[cv]} |->
                     IF r = registry[cv] THEN items[cv] ELSE before[r]]
            ELSE before

\* Mutant of SelectFactory: contextvars.Context is not replaced by None.
SelectFactoryNoDegrade(is_copy_context, kind) ==
    IF is_copy_context THEN "copy_context" ELSE kind

\* Lines 97-103: the factory selector.
SelectFactory(is_copy_context, kind) ==
    IF is_copy_context THEN "copy_context"
    ELSE IF kind = "Context" THEN "None"
    ELSE kind

\* Lines 89-104: the result of __call__: the error raised, or (cls, cvars).
Reduced(registry, is_copy_context, context, order) ==
    IF context.kind \notin ContextKinds
    THEN [err |-> "TypeError", cls |-> "None", cvars |-> <<>>]
    ELSE [err |-> "none",
          cls |-> SelectFactory(is_copy_context, context.kind),
          cvars |-> ReduceItems(registry, context.items, order, Len(order))]

Call(context, order) ==
    LET r == Reduced(picklable_contextvars, factory_is_copy_context, context, order) IN
    /\ last' = [op |-> "reduce", context |-> context, cls |-> r.cls, cvars |-> r.cvars,
                err |-> r.err]
    /\ UNCHANGED <<picklable_contextvars, auto_register, factory_is_copy_context,
                   copyreg_calls, pickle_flags, current_context, unregistered>>

Reduce ==
    \E context \in ReduceArgs : \E order \in Orders(DOMAIN context.items) : Call(context, order)

\* ------------------------------------------------------------------ _context_factory

\* Mutant of NewContext: the ambient context is copied whatever the selector.
NewContextAlwaysCopy(cls, ambient) ==
    [kind |-> IF cls \in {"None", "copy_context"} THEN "Context" ELSE cls, items |-> ambient]

\* Lines 58-61: the context the factory starts from.
NewContext(cls, ambient) ==
    IF cls = "None" THEN [kind |-> "Context", items |-> <<>>]
    ELSE IF cls = "copy_context" THEN [kind |-> "Context", items |-> ambient]
    ELSE [kind |-> cls, items |-> <<>>]

\* Mutant of SetVar: a variable that has a value keeps it.
SetVarKeepExisting(items, cv, value) ==
    [c \in DOMAIN items \cup {cv} |-> IF c \in DOMAIN items THEN items[c] ELSE value]

\* Line 67: cv.set(value) in the context that is active.
SetVar(items, cv, value) ==
    [c \in DOMAIN items \cup {cv} |-> IF c = cv THEN value ELSE items[c]]

\* Lines 63-67: set_vars run on the items of the active context, over the first n
\* references of the order: the items afterwards and the error that stopped the loop.
\* An object that is no ContextVar has no set(value) method to call (AttributeError).
RECURSIVE SetVars(_, _, _, _, _)
SetVars(items, mapping, resolved, order, n) ==
    IF n = 0 THEN [items |-> items, err |-> "none"]
    ELSE LET before == SetVars(items, mapping, resolved, order, n - 1)
             ref == order[n]
             found == resolved[ref]
         IN IF before.err # "none" THEN before
            ELSE IF found.err # "none" THEN [items |-> before.items, err |-> found.err]
            ELSE IF found.obj \cap CVars = {}
                 THEN [items |-> before.items, err |-> "AttributeError"]
            ELSE [items |-> SetVar(before.items, CHOOSE cv \in found.obj : TRUE, mapping[ref]),
                  err |-> "none"]

\* Mutant of ContextRun: set_vars is called without context.run, in the ambient context.
ContextRunInAmbient(ambient, context, mapping, resolved, order) ==
    LET ran == SetVars(ambient, mapping, resolved, order, Len(order)) IN
    [ambient |-> ran.items, context |-> context, err |-> ran.err]

\* Line 69: context.run(set_vars): the context is entered, set_vars runs in it, and the
\* context is left again, also when set_vars raises.
ContextRun(ambient, context, mapping, resolved, order) ==
    LET ran == SetVars(context.items, mapping, resolved, order, Len(order)) IN
    [ambient |-> ambient,
     context |-> [kind |-> context.kind, items |-> ran.items],
     err |-> ran.err]

\* Mutant of Returned: the context is handed out although set_vars raised.
ReturnedAlways(ran) == {ran.context}

\* Line 70: what the caller gets: the context, or nothing when an exception propagates.
Returned(ran) == IF ran.err = "none" THEN {ran.context} ELSE {}

ContextFactory(cls, mapping, resolved, order, source) ==
    LET ran == ContextRun(current_context, NewContext(cls, current_context), mapping,
                          resolved, order)
    IN
    /\ current_context' = ran.ambient
    /\ last' = [op |-> "reconstruct", cls |-> cls, mapping |-> mapping, resolved |-> resolved,
                order |-> order, result |-> Returned(ran), err |-> ran.err, source |-> source]
    /\ UNCHANGED <<picklable_contextvars, auto_register, factory_is_copy_context,
                   copyreg_calls, pickle_flags, unregistered>>

\* The factory called with any arguments.
Reconstruct ==
    \E cls \in Selectors, mapping \in Mappings :
        \E resolved \in Resolutions(DOMAIN mapping), order \in Orders(DOMAIN mapping) :
            ContextFactory(cls, mapping, resolved, order, {})

\* Unpickling: the factory called with the arguments the last reduction returned.
Unpickle ==
    /\ last.op = "reduce"
    /\ last.err = "none"
    /\ \E resolved \in Resolutions(DOMAIN last.cvars), order \in Orders(DOMAIN last.cvars) :
            ContextFactory(last.cls, last.cvars, resolved, order, {last.context})

\* ------------------------------------------------------------------ specifications

\* Every call, in any order. The three specifications below cover it part by part:
\* the factory reads and writes nothing of the reducer, and the reducer nothing of
\* the ambient context.
Next == Register \/ Unregister \/ Reduce \/ Reconstruct \/ Unpickle

Spec == Init /\ [][Next]_vars

\* The registry and the reducer: registrations, unregistrations and reductions, with
\* nothing set in the ambient context (which none of them reads).
InitRegistry == Init /\ current_context = <<>>
NextRegistry == Register \/ Unregister \/ Reduce
SpecRegistry == InitRegistry /\ [][NextRegistry]_vars

\* The factory applied once, in any ambient context, to any selector and any mapping
\* (it keeps nothing from one call to the next).
InitFactory == Init /\ ~auto_register /\ ~factory_is_copy_context
FactoryCall == last.op = "init" /\ Reconstruct
NextFactory == FactoryCall
SpecFactory == InitFactory /\ [][NextFactory]_vars

\* One round trip: a reducer that does not install itself, holding any registry
\* (register_contextvar with validate false stores any reference for any variable),
\* reduces any context, and the factory is applied to the reduced form.
InitRoundTrip ==
    /\ picklable_contextvars \in PartialFns(CVars, Refs)
    /\ auto_register = FALSE
    /\ factory_is_copy_context \in BOOLEAN
    /\ copyreg_calls = 0
    /\ pickle_flags = FALSE
    /\ current_context \in ItemMaps
    /\ unregistered = {}
    /\ last = [op |-> "init"]
Pickle == last.op = "init" /\ Reduce
NextRoundTrip == Pickle \/ Unpickle
SpecRoundTrip == InitRoundTrip /\ [][NextRoundTrip]_vars

\* ------------------------------------------------------------------ properties

\* The context handed out by the last factory call (when there is one).
Result == CHOOSE c \in last.result : TRUE

\* The context the last factory call's arguments were reduced from (when there is one).
Source == CHOOSE c \in last.source : TRUE

\* The variables of a context that are in the registry.
RegisteredIn(items) == DOMAIN items \cap DOMAIN picklable_contextvars

\* A reference resolves to the variable cv in the last factory call.
ResolvesTo(ref, cv) == last.resolved[ref] = [err |-> "none", obj |-> {cv}]

\* C1 as stated: a context that holds only registered variables, reduced and rebuilt
\* by the factory, gives a context in which every one of its variables has its
\* original value.
RoundTripOriginal ==
    (last.op = "reconstruct" /\ last.source # {}
        /\ DOMAIN Source.items \subseteq DOMAIN picklable_contextvars)
    => /\ last.result # {}
       /\ \A cv \in DOMAIN Source.items :
            cv \in DOMAIN Result.items /\ Result.items[cv] = Source.items[cv]

\* C1 amended: the round trip gives back every value provided that, when the factory
\* runs, the reference stored for each variable of the context resolves to that
\* very variable.
RoundTripResolving ==
    (last.op = "reconstruct" /\ last.source # {}
        /\ DOMAIN Source.items \subseteq DOMAIN picklable_contextvars
        /\ \A cv \in DOMAIN Source.items : ResolvesTo(picklable_contextvars[cv], cv))
    => /\ last.result # {}
       /\ last.err = "none"
       /\ \A cv \in DOMAIN Source.items :
            cv \in DOMAIN Result.items /\ Result.items[cv] = Source.items[cv]

\* C1 witness: two registered variables round-trip through copy_context although the
\* ambient context holds another value for one of them.
RoundTripWitness ==
    /\ last.op = "reconstruct"
    /\ last.source # {}
    /\ last.cls = "copy_context"
    /\ Cardinality(DOMAIN Source.items) = 2
    /\ DOMAIN Source.items \subseteq DOMAIN picklable_contextvars
    /\ \A cv \in DOMAIN Source.items : ResolvesTo(picklable_contextvars[cv], cv)
    /\ \E cv \in DOMAIN Source.items :
            cv \in DOMAIN current_context /\ current_context[cv] # Source.items[cv]
    /\ last.result # {}

\* The context of the last reduction holds registered and unregistered variables.
HoldsBoth(items) == RegisteredIn(items) # {} /\ DOMAIN items \ DOMAIN picklable_contextvars # {}

\* C2 as stated: for a context holding registered and unregistered variables the
\* map has exactly one entry per registered variable of the context, keyed by its
\* reference and carrying its value, and nothing else.
PrivacyBoundaryOriginal ==
    (last.op = "reduce" /\ last.context.kind \in ContextKinds /\ HoldsBoth(last.context.items))
    => /\ last.err = "none"
       /\ DOMAIN last.cvars = {picklable_contextvars[cv] : cv \in RegisteredIn(last.context.items)}
       /\ Cardinality(DOMAIN last.cvars) = Cardinality(RegisteredIn(last.context.items))
       /\ \A cv \in RegisteredIn(last.context.items) :
            last.cvars[picklable_contextvars[cv]] = last.context.items[cv]

\* C2 amended: reducing a context never fails on its variables; the keys of the map
\* are exactly the references of the registered variables of the context; every
\* entry carries the value of a registered variable stored under its key; and when
\* the registered variables of the context have distinct references there is one
\* entry per variable, carrying its value.
PrivacyBoundaryDistinctRefs ==
    (last.op = "reduce" /\ last.context.kind \in ContextKinds)
    => LET items == last.context.items
           reg == RegisteredIn(items)
       IN /\ last.err = "none"
          /\ DOMAIN last.cvars = {picklable_contextvars[cv] : cv \in reg}
          /\ \A r \in DOMAIN last.cvars :
                \E cv \in reg : picklable_contextvars[cv] = r /\ last.cvars[r] = items[cv]
          /\ (\A cv1, cv2 \in reg :
                picklable_contextvars[cv1] = picklable_contextvars[cv2] => cv1 = cv2)
             => /\ Cardinality(DOMAIN last.cvars) = Cardinality(reg)
                /\ \A cv \in reg : last.cvars[picklable_contextvars[cv]] = items[cv]

\* C2 witness: a context with two registered variables under distinct references and
\* an unregistered one has been reduced to a map of two entries.
PrivacyBoundaryWitness ==
    /\ last.op = "reduce"
    /\ last.err = "none"
    /\ HoldsBoth(last.context.items)
    /\ Cardinality(RegisteredIn(last.context.items)) = 2
    /\ Cardinality(DOMAIN last.cvars) = 2

\* The last call was register(validate=true) of a variable whose scope and name
\* resolve to an object that is not that variable.
ResolvedToAnother(call) ==
    /\ call.op = "register"
    /\ call.cv \in CVars
    /\ call.validate
    /\ call.lookup.err = "none"
    /\ call.lookup.obj # {call.cv}

\* C3: a validated registration whose scope and name resolve to another object
\* fails with the identity-mismatch error (ValueError) and leaves the registry as
\* it was.
RegistrationValidation ==
    [][ResolvedToAnother(last')
        => /\ last'.err = "ValueError"
           /\ picklable_contextvars' = picklable_contextvars]_vars

\* C3 witness: a registration of an already registered variable has failed with
\* ValueError, and the variable's earlier entry, under another reference, is there.
RegistrationValidationWitness ==
    /\ ResolvedToAnother(last)
    /\ last.err = "ValueError"
    /\ last.cv \in DOMAIN picklable_contextvars
    /\ picklable_contextvars[last.cv] # last.ref

\* C4: a call of the factory, whether it returns or raises, leaves the ambient
\* context with the values it had.
ReconstructionIsolation ==
    [][last'.op = "reconstruct" => current_context' = current_context]_vars

\* C4 witness: the factory has returned a context whose values differ from those of
\* the ambient context, which holds values of its own.
ReconstructionIsolationWitness ==
    /\ last.op = "reconstruct"
    /\ last.result # {}
    /\ last.mapping # <<>>
    /\ current_context # <<>>
    /\ Result.items # current_context

\* C5: when a reference of the mapping does not resolve (module or name missing),
\* the factory raises that error and hands out no context.
FailureAtomicity ==
    (last.op = "reconstruct" /\ \E ref \in DOMAIN last.mapping : last.resolved[ref].err # "none")
    => /\ last.err \in {"ModuleNotFoundError", "AttributeError"}
       /\ last.result = {}

\* C5 witness: of two references one resolves to a variable and the other does not,
\* and the factory has raised.
FailureAtomicityWitness ==
    /\ last.op = "reconstruct"
    /\ \E r1, r2 \in DOMAIN last.mapping :
        /\ last.resolved[r1].err = "AttributeError"
        /\ last.resolved[r2].err = "none"
        /\ last.resolved[r2].obj \subseteq CVars
    /\ last.order[1] \in {r \in DOMAIN last.mapping : last.resolved[r].err = "none"}
    /\ last.err = "AttributeError"
    /\ last.result = {}

\* C6: the selector is copy_context for a reducer with factory_is_copy_context,
\* whatever the kind of the context; otherwise it is None for a contextvars.Context
\* and the class of the context for a subclass.
StrategySelection ==
    (last.op = "reduce" /\ last.err = "none")
    => IF factory_is_copy_context THEN last.cls = "copy_context"
       ELSE IF last.context.kind = "Context" THEN last.cls = "None"
       ELSE last.cls = last.context.kind /\ last.cls = "SubContext"

\* C6 witness: a plain contextvars.Context has been reduced by a reducer without
\* factory_is_copy_context.
StrategySelectionWitness ==
    /\ last.op = "reduce"
    /\ last.err = "none"
    /\ ~factory_is_copy_context
    /\ last.context.kind = "Context"
    /\ last.cls = "None"

\* C7: a variable that was unregistered and not registered again has no entry in
\* the registry, and no entry of a later reduced map comes from it: every entry is
\* the reference and the value of a variable of the context that is still
\* registered, and each of those has its entry.
UnregisterThenReduce ==
    /\ unregistered \cap DOMAIN picklable_contextvars = {}
    /\ (last.op = "reduce" /\ last.err = "none")
        => LET items == last.context.items
               kept == (DOMAIN items \ unregistered) \cap DOMAIN picklable_contextvars
           IN /\ \A r \in DOMAIN last.cvars :
                    \E cv \in kept : picklable_contextvars[cv] = r /\ last.cvars[r] = items[cv]
              /\ \A cv \in kept : picklable_contextvars[cv] \in DOMAIN last.cvars

\* C7 witness: a context holding an unregistered variable and a registered one has
\* been reduced to a map of one entry.
UnregisterThenReduceWitness ==
    /\ last.op = "reduce"
    /\ last.err = "none"
    /\ unregistered \cap DOMAIN last.context.items # {}
    /\ RegisteredIn(last.context.items) # {}
    /\ Cardinality(DOMAIN last.cvars) = 1

\* The step is a successful register_contextvar call.
Registered(call) == call.op = "register" /\ call.err = "none"

\* C8: the reducer is installed (copyreg.pickle, and the stackless flags) by the
\* first successful registration of a reducer with auto_register and never again;
\* a failed registration, an unregistration or a reduction changes neither the
\* installation nor auto_register.
OnceOnlyActivation ==
    /\ [](copyreg_calls <= 1 /\ (copyreg_calls = 1 => ~auto_register)
            /\ (pickle_flags => copyreg_calls = 1))
    /\ [][/\ copyreg_calls' =
                copyreg_calls + (IF Registered(last') /\ auto_register THEN 1 ELSE 0)
          /\ ~Registered(last') =>
                (auto_register' = auto_register /\ pickle_flags' = pickle_flags)
          /\ ~auto_register =>
                (~auto_register' /\ pickle_flags' = pickle_flags)]_vars

\* C8 witness: two variables are registered with the default configuration and the
\* reducer has been installed once.
OnceOnlyActivationWitness ==
    /\ copyreg_calls = 1
    /\ ~auto_register
    /\ Cardinality(DOMAIN picklable_contextvars) >= 2
    /\ Registered(last)

\* The variables of the context handed out by the factory.
ResolvedVars == UNION {last.resolved[ref].obj : ref \in DOMAIN last.mapping}

\* C9 as stated: whatever the selector and the ambient context, the variables of the
\* context handed out are exactly those the references of the mapping resolve to.
ExactPopulationOriginal ==
    (last.op = "reconstruct" /\ last.result # {})
    => DOMAIN Result.items = ResolvedVars

\* C9 amended: with the selector None or a class the variables of the context
\* handed out are exactly those the references resolve to; with copy_context they
\* are those and the variables of the ambient context, which keep their ambient
\* value unless the mapping sets them.
ExactPopulationOverSnapshot ==
    (last.op = "reconstruct" /\ last.result # {})
    => /\ DOMAIN Result.items =
            ResolvedVars \cup (IF last.cls = "copy_context" THEN DOMAIN current_context ELSE {})
       /\ \A cv \in DOMAIN Result.items \ ResolvedVars :
            Result.items[cv] = current_context[cv]
       /\ \A cv \in ResolvedVars :
            \E ref \in DOMAIN last.mapping :
                ResolvesTo(ref, cv) /\ Result.items[cv] = last.mapping[ref]

\* C9 witness: the factory was called with copy_context and has handed out a context
\* that holds a variable of the ambient context next to the one the mapping names.
ExactPopulationWitness ==
    /\ last.op = "reconstruct"
    /\ last.cls = "copy_context"
    /\ last.result # {}
    /\ ResolvedVars # {}
    /\ DOMAIN current_context \ ResolvedVars # {}
    /\ DOMAIN Result.items = ResolvedVars \cup DOMAIN current_context

\* C10: a successful registration stores the reference of the call for its variable
\* and changes no other entry; a successful unregistration removes the entry of its
\* variable alone; no other call changes the registry.
LastWriterWins ==
    [][IF Registered(last')
       THEN /\ DOMAIN picklable_contextvars' = DOMAIN picklable_contextvars \cup {last'.cv}
            /\ picklable_contextvars'[last'.cv] = last'.ref
            /\ \A cv \in DOMAIN picklable_contextvars \ {last'.cv} :
                    picklable_contextvars'[cv] = picklable_contextvars[cv]
       ELSE IF last'.op = "unregister" /\ last'.err = "none"
       THEN /\ DOMAIN picklable_contextvars' = DOMAIN picklable_contextvars \ {last'.cv}
            /\ \A cv \in DOMAIN picklable_contextvars' :
                    picklable_contextvars'[cv] = picklable_contextvars[cv]
       ELSE picklable_contextvars' = picklable_contextvars]_vars

\* C10 witness: a registration has stored, next to the entry of another variable, a
\* reference whose name is not the declared name of its variable.
LastWriterWinsWitness ==
    /\ Registered(last)
    /\ picklable_contextvars[last.cv] = last.ref
    /\ last.ref[2] # cvName(last.cv)
    /\ Cardinality(DOMAIN picklable_contextvars) >= 2
====
